---- MODULE Spec2Model ----
(***************************************************************************)
(* Model of domain/base.py: BaseDomainClient, the client that maps an API  *)
(* end point to the scope it needs, finds or mints a token carrying that   *)
(* scope, and issues the GET.                                              *)
(*                                                                         *)
(* Strings.  An end point is a finite sequence over the alphabet Sym: the  *)
(* eleven keys of the scope table, the slash, and one other character.     *)
(* No key is a concatenation of other symbols of Sym, so two sequences are *)
(* equal exactly when the strings they spell are equal; <<"agents","x">>   *)
(* spells "agentsx" and <<"/","me","/","x">> spells "/me/x".               *)
(***************************************************************************)
EXTENDS Integers, Sequences, FiniteSets, TLC

VARIABLES auth, available, warned, tokens, requested, last,
          end_point, scope_result, th

vars == <<auth, available, warned, tokens, requested, last,
          end_point, scope_result, th>>

None == "None"

(* ---------------- bounds ---------------- *)
MaxLen == 3
MaxGrant == 2
NumThreads == 2

(* ---------------- class attributes ---------------- *)
_API_URL == "https://api.domain.com.au"
_API_VERSION == 1

(* ---------------- the alphabet of end points ---------------- *)
Slash == "/"
OtherChar == "x"
Keys == {"addressLocators", "agencies", "agents", "me", "demographics",
         "disclaimers", "listings", "properties", "propertyReports",
         "salesResults", "suburbPerformanceStatistics"}
Sym == Keys \cup {Slash, OtherChar}

SeqsUpTo(S, n) == UNION {[1..k -> S] : k \in 0..n}
EndPoints == SeqsUpTo(Sym, MaxLen)

(* ---------------- _scope_required ---------------- *)
\* faulty: strips a single leading slash
lstrip_one(s) == IF s # <<>> /\ Head(s) = Slash THEN Tail(s) ELSE s

RECURSIVE lstrip(_)
lstrip(s) == IF s # <<>> /\ Head(s) = Slash THEN lstrip(Tail(s)) ELSE s

RECURSIVE split_first(_)
split_first(s) ==
    IF s = <<>> \/ Head(s) = Slash THEN <<>>
    ELSE <<Head(s)>> \o split_first(Tail(s))

reference_point_scopes ==
    ( <<"addressLocators">> :> "api_addresslocators_read" ) @@
    ( <<"agencies">> :> "api_agencies_read" ) @@
    ( <<"agents">> :> "api_agencies_read" ) @@
    ( <<"me">> :> "api_agencies_read" ) @@
    ( <<"demographics">> :> "api_demographics_read" ) @@
    ( <<"disclaimers">> :> "api_properties_read" ) @@
    ( <<"listings">> :> "api_listings_read" ) @@
    ( <<"properties">> :> "api_properties_read" ) @@
    ( <<"propertyReports">> :> "api_propertyreports_read" ) @@
    ( <<"salesResults">> :> "api_salesresults_read" ) @@
    ( <<"suburbPerformanceStatistics">> :> "api_suburbperformance_read" )

Scopes == {reference_point_scopes[k] : k \in DOMAIN reference_point_scopes}

dict_get(d, k, default) == IF k \in DOMAIN d THEN d[k] ELSE default

ValueError_scope == "ValueError: no API scope recognised for end point"
ValueError_plans == "ValueError: no plans available with required scope"

\* the scope of the end point, or ValueError_scope when the code raises
_scope_required(e) ==
    LET reference_point == split_first(lstrip(e))
        scope == dict_get(reference_point_scopes, reference_point, None)
    IN  IF scope = None THEN ValueError_scope ELSE scope

(* ---------------- _api_url ---------------- *)
\* "{}/v{}/{}".format(_API_URL, _API_VERSION, end_point), as its pieces
_api_url(e) == <<_API_URL, "/v", _API_VERSION, "/">> \o e

(* ---------------- the packages (plans) ---------------- *)
AgentListingsPackage == "AgentListingsPackage"
PropertyLocationsPackage == "PropertyLocationsPackage"

\* an absent constructor argument (auth_property=None / auth_agent=None)
NoArg == <<>>
ArgChoices(plan) ==
    {NoArg} \cup
    (IF plan = AgentListingsPackage
       THEN {<<"agent_id", "agent_secret">>}
       ELSE {<<"property_id", "property_secret">>})

\* os.environ: each of the four variables is set or not
EnvNames == {"API_DOMAIN_PROPERTY_CLIENT_ID", "API_DOMAIN_PROPERTY_CLIENT_SECRET",
             "API_DOMAIN_AGENT_CLIENT_ID", "API_DOMAIN_AGENT_CLIENT_SECRET"}
EnvChoices ==
    { [n \in EnvNames |-> None],
      [n \in EnvNames |-> IF n = "API_DOMAIN_AGENT_CLIENT_ID"
                            THEN "env_agent_id" ELSE None] }

\* the scopes each package may grant (packages.py, available_scopes)
AvailableChoices ==
    { (AgentListingsPackage :> {"api_agencies_read", "api_listings_read"}) @@
      (PropertyLocationsPackage :>
          {"api_addresslocators_read", "api_demographics_read",
           "api_properties_read", "api_propertyreports_read",
           "api_salesresults_read", "api_suburbperformance_read"}),
      (AgentListingsPackage :>
          {"api_agencies_read", "api_listings_read", "api_properties_read"}) @@
      (PropertyLocationsPackage :>
          {"api_addresslocators_read", "api_demographics_read",
           "api_properties_read", "api_propertyreports_read",
           "api_suburbperformance_read"}) }

TokenError == "TokenError"

\* plan(client_id, client_secret, scope): the token, unless the acquisition
\* fails and the constructor raises.  A complete pair is a valid pair; what the server makes
\* of a pair with a None in it is not decided by the client.
Plan_raises(client_id, client_secret, accepted) ==
    None \in {client_id, client_secret} /\ ~accepted

Plan(plan, client_id, client_secret, scope, avail, extra, sess) ==
    [plan |-> plan, client_id |-> client_id, client_secret |-> client_secret,
     scope |-> scope, scopes |-> {scope} \cup (extra \cap avail),
     session |-> <<sess>>]

(* ---------------- __init__ ---------------- *)
\* self._auth is a dict: iteration follows insertion order
PlanOrder == <<AgentListingsPackage, PropertyLocationsPackage>>

init_warned(au) == \A k \in DOMAIN au : None \in {au[k][1], au[k][2]}

__init__(auth_property, auth_agent, environ) ==
    LET ap == IF auth_property = NoArg
                THEN <<environ["API_DOMAIN_PROPERTY_CLIENT_ID"],
                       environ["API_DOMAIN_PROPERTY_CLIENT_SECRET"]>>
                ELSE auth_property
        aa == IF auth_agent = NoArg
                THEN <<environ["API_DOMAIN_AGENT_CLIENT_ID"],
                       environ["API_DOMAIN_AGENT_CLIENT_SECRET"]>>
                ELSE auth_agent
        au == (AgentListingsPackage :> aa) @@ (PropertyLocationsPackage :> ap)
    IN  [auth |-> au, warned |-> init_warned(au), tokens |-> <<>>]

(* ---------------- _prepare_request ---------------- *)
\* faulty: never finds a cached token
scan_tokens_never(toks, scope) == 0

\* faulty: the scan skips the first cached token
scan_tokens_from_second(toks, scope) ==
    IF \E i \in 2..Len(toks) : scope \in toks[i].scopes
    THEN CHOOSE i \in 2..Len(toks) :
            /\ scope \in toks[i].scopes
            /\ \A j \in 2..(i-1) : scope \notin toks[j].scopes
    ELSE 0

\* for token in self.tokens: if scope in token.scopes: break
\* the index of the token the loop breaks on, 0 when it runs to its else
scan_tokens(toks, scope) ==
    IF \E i \in 1..Len(toks) : scope \in toks[i].scopes
    THEN CHOOSE i \in 1..Len(toks) :
            /\ scope \in toks[i].scopes
            /\ \A j \in 1..(i-1) : scope \notin toks[j].scopes
    ELSE 0

\* faulty: the last plan offering the scope instead of the first
select_plan_last(avail, scope) ==
    IF \E i \in 1..Len(PlanOrder) : scope \in avail[PlanOrder[i]]
    THEN CHOOSE i \in 1..Len(PlanOrder) :
            /\ scope \in avail[PlanOrder[i]]
            /\ \A j \in (i+1)..Len(PlanOrder) : scope \notin avail[PlanOrder[j]]
    ELSE 0

\* faulty: falls back to the last plan when none offers the scope
select_plan_default(avail, scope) ==
    IF \E i \in 1..Len(PlanOrder) : scope \in avail[PlanOrder[i]]
    THEN CHOOSE i \in 1..Len(PlanOrder) :
            /\ scope \in avail[PlanOrder[i]]
            /\ \A j \in 1..(i-1) : scope \notin avail[PlanOrder[j]]
    ELSE Len(PlanOrder)

\* for plan, creds in self._auth.items(): if scope in plan.available_scopes
\* the index in PlanOrder of the plan the loop breaks on, 0 for its else
select_plan(avail, scope) ==
    IF \E i \in 1..Len(PlanOrder) : scope \in avail[PlanOrder[i]]
    THEN CHOOSE i \in 1..Len(PlanOrder) :
            /\ scope \in avail[PlanOrder[i]]
            /\ \A j \in 1..(i-1) : scope \notin avail[PlanOrder[j]]
    ELSE 0

\* faulty: inserts at the front
append_front(toks, new) == <<new>> \o toks

\* faulty: overwrites the last element
append_replace(toks, new) ==
    IF toks = <<>> THEN <<new>> ELSE [toks EXCEPT ![Len(toks)] = new]

\* list.append
append(toks, new) == Append(toks, new)

NoSession == <<>>
NoUrl == <<>>

Outcome(raised, toks, scope, scanned, consulted, instantiated, reused, session, url) ==
    [raised |-> raised, tokens |-> toks, scope |-> scope, scanned |-> scanned,
     consulted |-> consulted, instantiated |-> instantiated, reused |-> reused,
     session |-> session, url |-> url]

\* extra, accepted: what the authorization server does if a plan is
\* instantiated; sess: the session handle a new token would get
_prepare_request(toks, au, avail, e, extra, accepted, sess) ==
    LET scope == _scope_required(e) IN
    IF scope = ValueError_scope
    THEN Outcome(ValueError_scope, toks, None, 0, <<>>, <<>>, 0,
                 NoSession, NoUrl)
    ELSE
    LET hit == scan_tokens(toks, scope) IN
    IF hit # 0
    THEN Outcome(None, toks, scope, hit, <<>>, <<>>, hit,
                 toks[hit].session, _api_url(e))
    ELSE
    LET p == select_plan(avail, scope) IN
    IF p = 0
    THEN Outcome(ValueError_plans, toks, scope, Len(toks), PlanOrder, <<>>, 0,
                 NoSession, NoUrl)
    ELSE
    LET plan == PlanOrder[p]
        creds == au[plan]
        call == <<plan, creds[1], creds[2], scope>>
        new == Plan(plan, creds[1], creds[2], scope, avail[plan], extra, sess)
    IN  IF Plan_raises(creds[1], creds[2], accepted)
        THEN Outcome(TokenError, toks, scope, Len(toks), SubSeq(PlanOrder, 1, p),
                     <<call>>, 0, NoSession, NoUrl)
        ELSE LET appended == append(toks, new)
                 token == appended[Len(appended)]
             IN  Outcome(None, appended, scope, Len(toks),
                         SubSeq(PlanOrder, 1, p), <<call>>, 0,
                         token.session, _api_url(e))

(* ---------------- _api_request ---------------- *)
HTTPError == "HTTPError"

\* faulty: only 2xx counts as ok
ok_2xx(status) == status >= 200 /\ status < 300

\* requests.Response.ok: False exactly when raise_for_status() would raise,
\* which it does for 400 <= status_code < 600
ok(status) == ~(status >= 400 /\ status < 600)

\* what _api_request does once _prepare_request has returned prep
_api_request(prep, status) ==
    IF prep.raised # None
    THEN [raised |-> prep.raised, gets |-> <<>>, status |-> <<>>, returned |-> <<>>]
    ELSE LET get == <<prep.session, prep.url>> IN
         IF ~ok(status)
         THEN [raised |-> HTTPError, gets |-> <<get>>, status |-> <<status>>,
               returned |-> <<>>]
         ELSE [raised |-> None, gets |-> <<get>>, status |-> <<status>>,
               returned |-> <<status>>]

(* ---------------- inputs ---------------- *)
ReqEndPoints ==
    { <<"agents", "/", "x">>, <<"/", "me">>, <<"properties", "/", "x">>,
      <<"salesResults">>, <<"x">> }

Statuses == {100, 200, 299, 304, 400, 599}

\* the scopes a server may grant on top of the requested one
ReqScopes == {_scope_required(e) : e \in ReqEndPoints} \ {ValueError_scope}
Extras == {S \in SUBSET ReqScopes : Cardinality(S) < MaxGrant}

\* the server is asked only when a plan is instantiated, and the transport
\* answers only when a GET is issued
Instantiates(toks, au, avail, e) ==
    _prepare_request(toks, au, avail, e, {}, TRUE, 0).instantiated # <<>>
ExtrasFor(toks, au, avail, e) ==
    IF Instantiates(toks, au, avail, e) THEN Extras ELSE {{}}
AcceptedFor(toks, au, avail, e) ==
    IF Instantiates(toks, au, avail, e) THEN BOOLEAN ELSE {TRUE}
StatusesFor(prep) == IF prep.raised = None THEN Statuses ELSE {200}

(* ---------------- the single-threaded client ---------------- *)
NotCalled == "NotCalled"
NoThreads == [t \in 1..NumThreads |-> [pc |-> "off"]]

NoCall ==
    [op |-> "none", end_point |-> <<>>, raised |-> None, scope |-> None,
     scanned |-> 0, consulted |-> <<>>, instantiated |-> <<>>, reused |-> 0,
     session |-> NoSession, url |-> NoUrl, gets |-> <<>>, status |-> <<>>,
     returned |-> <<>>, before |-> 0]

Init ==
    \E ap \in ArgChoices(PropertyLocationsPackage),
       aa \in ArgChoices(AgentListingsPackage),
       environ \in EnvChoices, av \in AvailableChoices :
        LET c == __init__(ap, aa, environ) IN
        /\ auth = c.auth
        /\ warned = c.warned
        /\ tokens = c.tokens
        /\ available = av
        /\ requested = {}
        /\ last = NoCall
        /\ end_point = <<>>
        /\ scope_result = NotCalled
        /\ th = NoThreads

Requested(req, prep) == IF prep.scope = None THEN req ELSE req \cup {prep.scope}

PrepareRequest ==
    \E e \in ReqEndPoints :
    \E extra \in ExtrasFor(tokens, auth, available, e),
       accepted \in AcceptedFor(tokens, auth, available, e) :
        LET prep == _prepare_request(tokens, auth, available, e, extra,
                                     accepted, Len(tokens) + 1)
        IN  /\ tokens' = prep.tokens
            /\ requested' = Requested(requested, prep)
            /\ last' = [op |-> "_prepare_request", end_point |-> e,
                        raised |-> prep.raised, scope |-> prep.scope,
                        scanned |-> prep.scanned, consulted |-> prep.consulted,
                        instantiated |-> prep.instantiated,
                        reused |-> prep.reused, session |-> prep.session,
                        url |-> prep.url, gets |-> <<>>, status |-> <<>>,
                        returned |-> <<>>, before |-> Len(tokens)]
            /\ UNCHANGED <<auth, available, warned, end_point, scope_result, th>>

ApiRequest ==
    \E e \in ReqEndPoints :
    \E extra \in ExtrasFor(tokens, auth, available, e),
       accepted \in AcceptedFor(tokens, auth, available, e) :
        LET prep == _prepare_request(tokens, auth, available, e, extra,
                                     accepted, Len(tokens) + 1)
        IN
        \E status \in StatusesFor(prep) :
        LET r == _api_request(prep, status)
        IN  /\ tokens' = prep.tokens
            /\ requested' = Requested(requested, prep)
            /\ last' = [op |-> "_api_request", end_point |-> e,
                        raised |-> r.raised, scope |-> prep.scope,
                        scanned |-> prep.scanned, consulted |-> prep.consulted,
                        instantiated |-> prep.instantiated,
                        reused |-> prep.reused, session |-> prep.session,
                        url |-> prep.url, gets |-> r.gets, status |-> r.status,
                        returned |-> r.returned, before |-> Len(tokens)]
            /\ UNCHANGED <<auth, available, warned, end_point, scope_result, th>>

Next == PrepareRequest \/ ApiRequest

Spec == Init /\ [][Next]_vars

(* ---------------- _scope_required on its own ---------------- *)
InitScope ==
    LET c == __init__(NoArg, NoArg, [n \in EnvNames |-> None]) IN
    /\ auth = c.auth
    /\ warned = c.warned
    /\ tokens = c.tokens
    /\ available \in AvailableChoices
    /\ requested = {}
    /\ last = NoCall
    /\ end_point \in EndPoints
    /\ scope_result = NotCalled
    /\ th = NoThreads

ScopeRequired ==
    /\ scope_result = NotCalled
    /\ scope_result' = _scope_required(end_point)
    /\ UNCHANGED <<auth, available, warned, tokens, requested, last,
                   end_point, th>>

NextScope == ScopeRequired

SpecScope == InitScope /\ [][NextScope]_vars

(* ---------------- several threads in _prepare_request ---------------- *)
\* Each thread calls _prepare_request once and runs it statement by statement;
\* the interpreter may switch threads between any two of them.
Threads == 1..NumThreads

MTEndPoints == { <<"agents", "/", "x">>, <<"properties", "/", "x">>, <<"x">> }

\* a thread that has not called yet
Idle ==
    [pc |-> "idle", end_point |-> <<>>, scope |-> None, i |-> 0,
     new |-> <<>>, token |-> <<>>]

\* a thread whose call has returned or raised; the result goes to its caller
Done == [Idle EXCEPT !.pc = "done"]

InitMT ==
    \E ap \in ArgChoices(PropertyLocationsPackage),
       aa \in ArgChoices(AgentListingsPackage),
       av \in AvailableChoices :
        LET c == __init__(ap, aa, [n \in EnvNames |-> None]) IN
        /\ auth = c.auth
        /\ warned = c.warned
        /\ tokens = c.tokens
        /\ available = av
        /\ requested = {}
        /\ last = NoCall
        /\ end_point = <<>>
        /\ scope_result = NotCalled
        /\ th = [t \in Threads |-> Idle]

MTFrame == UNCHANGED <<auth, available, warned, requested, last, end_point,
                       scope_result>>

\* scope = self._scope_required(end_point); iter(self.tokens)
Call(t) ==
    /\ th[t].pc = "idle"
    /\ \E e \in MTEndPoints :
        LET scope == _scope_required(e) IN
        th' = [th EXCEPT ![t] =
                 IF scope = ValueError_scope
                 THEN Done
                 ELSE [Idle EXCEPT !.pc = "scan",
                          !.end_point = e, !.scope = scope]]
    /\ UNCHANGED tokens
    /\ MTFrame

\* one turn of "for token in self.tokens: if scope in token.scopes: break"
ScanStep(t) ==
    /\ th[t].pc = "scan"
    /\ th' = [th EXCEPT ![t] =
                IF th[t].i < Len(tokens)
                THEN IF th[t].scope \in tokens[th[t].i + 1].scopes
                     THEN [@ EXCEPT !.pc = "return",
                                    !.token = <<tokens[th[t].i + 1]>>]
                     ELSE [@ EXCEPT !.i = @ + 1]
                ELSE [@ EXCEPT !.pc = "plans"]]
    /\ UNCHANGED tokens
    /\ MTFrame

\* the loop over self._auth.items() up to the call plan(creds[0], creds[1], scope)
Instantiate(t) ==
    /\ th[t].pc = "plans"
    /\ LET p == select_plan(available, th[t].scope) IN
       IF p = 0
       THEN th' = [th EXCEPT ![t] = Done]
       ELSE LET plan == PlanOrder[p]
                creds == auth[plan]
                sess == Len(tokens) + 1
                        + Cardinality({u \in Threads : th[u].pc = "append"})
            IN  \E extra \in Extras, accepted \in BOOLEAN :
                  th' = [th EXCEPT ![t] =
                     IF Plan_raises(creds[1], creds[2], accepted)
                     THEN Done
                     ELSE [@ EXCEPT !.pc = "append",
                            !.new = <<Plan(plan, creds[1], creds[2], th[t].scope,
                                           available[plan], extra, sess)>>]]
    /\ UNCHANGED tokens
    /\ MTFrame

\* self._tokens.append(...)
AppendToken(t) ==
    /\ th[t].pc = "append"
    /\ tokens' = append(tokens, th[t].new[1])
    /\ th' = [th EXCEPT ![t] = [@ EXCEPT !.pc = "last", !.new = <<>>]]
    /\ MTFrame

\* token = self._tokens[-1]
LastToken(t) ==
    /\ th[t].pc = "last"
    /\ th' = [th EXCEPT ![t] = [@ EXCEPT !.pc = "return",
                                         !.token = <<tokens[Len(tokens)]>>]]
    /\ UNCHANGED tokens
    /\ MTFrame

\* return (token.session, self._api_url(end_point))
Return(t) ==
    /\ th[t].pc = "return"
    /\ th' = [th EXCEPT ![t] = Done]
    /\ UNCHANGED tokens
    /\ MTFrame

NextMT ==
    \E t \in Threads :
        \/ Call(t)
        \/ ScanStep(t)
        \/ Instantiate(t)
        \/ AppendToken(t)
        \/ LastToken(t)
        \/ Return(t)

SpecMT == InitMT /\ [][NextMT]_vars

(* ======================= properties ======================= *)
IsPrefix(a, b) == Len(a) <= Len(b) /\ SubSeq(b, 1, Len(a)) = a
Complete(creds) == None \notin {creds[1], creds[2]}
Offered(scope) == \E plan \in DOMAIN available : scope \in available[plan]
Covering(toks, scope) == {i \in 1..Len(toks) : scope \in toks[i].scopes}
Called == last.op # "none"
Resolved == Called /\ last.scope # None

\* C1: a client with a complete pair for the property/locations plan only,
\* asked for an end point whose scope only the agent/listings plan offers,
\* fails with the "no plans available" ValueError, instantiates no plan and
\* issues no GET.
C1_PropertyOnlyFailsWithNoPlans ==
    ( /\ Complete(auth[PropertyLocationsPackage])
      /\ ~Complete(auth[AgentListingsPackage])
      /\ Resolved
      /\ last.scope \in available[AgentListingsPackage]
      /\ last.scope \notin available[PropertyLocationsPackage] )
    => /\ last.raised = ValueError_plans
       /\ last.instantiated = <<>>
       /\ last.gets = <<>>

\* C2: with (None, None) for both plans the constructor warns, and every
\* request to a mapped end point fails with the "no plans available"
\* ValueError and leaves the token cache empty.
C2_NoCredentialsFailsWithNoPlans ==
    (\A plan \in DOMAIN auth : auth[plan] = <<None, None>>)
    => /\ warned
       /\ Resolved => (last.raised = ValueError_plans /\ tokens = <<>>)

BothValid == \A plan \in DOMAIN auth : Complete(auth[plan])

\* C3 as stated: with valid credentials for both plans the cache length equals
\* the number of distinct scopes requested so far.
C3_LengthIsDistinctScopes ==
    BothValid => Len(tokens) = Cardinality(requested)

\* C3 as amended: with valid credentials for both plans, a request whose scope
\* a cached token covers returns the session of the first such token and
\* leaves the cache as it is; a request whose scope no cached token covers and
\* some plan offers appends exactly one token, which carries the scope and
\* whose session is returned; the cache is never longer than the number of
\* distinct scopes requested, and is exactly that long when every requested
\* scope is offered and every token carries only the scope it was minted for.
C3_ReuseOrAppendOne ==
    [][ (BothValid /\ last'.op # "none" /\ last'.scope # None) =>
        LET scope == last'.scope
            hits == Covering(tokens, scope)
        IN  /\ hits # {} =>
                /\ tokens' = tokens
                /\ \E i \in hits : /\ \A j \in hits : i <= j
                                   /\ last'.session = tokens[i].session
            /\ (hits = {} /\ Offered(scope)) =>
                /\ Len(tokens') = Len(tokens) + 1
                /\ IsPrefix(tokens, tokens')
                /\ scope \in tokens'[Len(tokens')].scopes
                /\ last'.session = tokens'[Len(tokens')].session
            /\ Len(tokens') <= Cardinality(requested')
            /\ ( /\ \A s \in requested' : Offered(s)
                 /\ \A i \in 1..Len(tokens') :
                        tokens'[i].scopes = {tokens'[i].scope} )
               => Len(tokens') = Cardinality(requested')
      ]_vars

\* two requests for one scope, the second served from the cache of length 1
C3_Witness ==
    /\ BothValid
    /\ last.reused = 1
    /\ Len(tokens) = 1
    /\ requested = {"api_agencies_read"}
    /\ last.end_point = <<"/", "me">>

\* C4 as stated: request raises for every status outside 200..299 and returns
\* the response only for a status in 200..299.
C4_RaisesUnlessStatus2xx ==
    (last.op = "_api_request" /\ last.gets # <<>>) =>
        LET status == last.status[1] IN
        IF status >= 200 /\ status <= 299
        THEN last.raised = None /\ last.returned = <<status>>
        ELSE last.raised = HTTPError /\ last.returned = <<>>

\* C4 as amended: request raises the HTTP error, and returns nothing, exactly
\* when the status is in 400..599; for every other status (1xx and 3xx as
\* well as 2xx) it returns the response.
C4_RaisesOnlyFor4xx5xx ==
    (last.op = "_api_request" /\ last.gets # <<>>) =>
        LET status == last.status[1] IN
        IF status >= 400 /\ status <= 599
        THEN last.raised = HTTPError /\ last.returned = <<>>
        ELSE last.raised = None /\ last.returned = <<status>>

C4_Witness ==
    /\ last.op = "_api_request"
    /\ last.status = <<304>>
    /\ last.returned = <<304>>
    /\ last.raised = None

\* the first path segment, written out: skip the leading slashes, then take
\* the symbols up to the next slash
LeadingSlashes(e) ==
    CHOOSE k \in 0..Len(e) :
        /\ \A j \in 1..k : e[j] = Slash
        /\ k = Len(e) \/ e[k + 1] # Slash
FirstSegment(e) ==
    LET k == LeadingSlashes(e)
        m == CHOOSE n \in k..Len(e) :
                /\ \A j \in (k + 1)..n : e[j] # Slash
                /\ n = Len(e) \/ e[n + 1] = Slash
    IN  SubSeq(e, k + 1, m)
ScopeTable ==
    { <<"addressLocators", "api_addresslocators_read">>,
      <<"agencies", "api_agencies_read">>,
      <<"agents", "api_agencies_read">>,
      <<"me", "api_agencies_read">>,
      <<"demographics", "api_demographics_read">>,
      <<"disclaimers", "api_properties_read">>,
      <<"listings", "api_listings_read">>,
      <<"properties", "api_properties_read">>,
      <<"propertyReports", "api_propertyreports_read">>,
      <<"salesResults", "api_salesresults_read">>,
      <<"suburbPerformanceStatistics", "api_suburbperformance_read">> }

\* C5: _scope_required returns the table's scope when the first segment of the
\* end point, leading slashes stripped, is one of the eleven keys, and raises
\* ValueError for every other first segment.
C5_ScopeFollowsTable ==
    scope_result # NotCalled =>
        LET seg == FirstSegment(end_point) IN
        /\ \A row \in ScopeTable : seg = <<row[1]>> => scope_result = row[2]
        /\ (\A row \in ScopeTable : seg # <<row[1]>>)
              => scope_result = ValueError_scope

C5_Witness ==
    /\ end_point = <<"/", "/", "me">>
    /\ scope_result = "api_agencies_read"

\* C6 as stated: no two cached tokens have a scope in common.
C6_NoScopeInTwoTokens ==
    \A i, j \in 1..Len(tokens) :
        i < j => tokens[i].scopes \cap tokens[j].scopes = {}

\* C6 as amended: no cached token was minted for a scope that an earlier
\* cached token carries; in particular no two cached tokens were minted for
\* the same scope.
C6_MintedOnlyWhenUncovered ==
    \A i, j \in 1..Len(tokens) :
        i < j => tokens[j].scope \notin tokens[i].scopes

\* a later token granted more than was asked shares a scope with an earlier one
C6_Witness ==
    \E i, j \in 1..Len(tokens) :
        /\ i < j
        /\ tokens[i].scopes \cap tokens[j].scopes # {}
        /\ tokens[j].scope \notin tokens[i].scopes

\* C7: every operation leaves the old cache as a prefix of the new one, and a
\* token minted for a request whose GET then failed is the one the next
\* request for that scope gets, without the cache changing.
C7_CacheOnlyAppends ==
    [][ /\ IsPrefix(tokens, tokens')
        /\ ( /\ last.raised = HTTPError
             /\ last.instantiated # <<>>
             /\ last'.scope = last.scope )
           => /\ tokens' = tokens
              /\ last'.reused = Len(tokens)
              /\ last'.session = last.session
      ]_vars

C7_Witness ==
    /\ last.raised = HTTPError
    /\ last.instantiated # <<>>
    /\ Len(tokens) = last.before + 1
    /\ last.before > 0
    /\ tokens[Len(tokens)].session = last.session

\* C8: on a cache miss for a scope some plan offers, exactly one plan is
\* instantiated: the first of agent/listings, property/locations that offers
\* the scope, with its own pair and the scope; when the constructor returns,
\* its token is the new last element of the cache and its session is returned.
C8_FirstPlanInOrderMints ==
    (Resolved /\ last.reused = 0 /\ Offered(last.scope)) =>
        LET first == IF last.scope \in available[AgentListingsPackage]
                       THEN AgentListingsPackage
                       ELSE PropertyLocationsPackage
        IN  /\ last.instantiated =
                  << <<first, auth[first][1], auth[first][2], last.scope>> >>
            /\ last.raised \in {None, HTTPError} =>
                  /\ Len(tokens) = last.before + 1
                  /\ tokens[Len(tokens)].plan = first
                  /\ tokens[Len(tokens)].client_id = auth[first][1]
                  /\ tokens[Len(tokens)].client_secret = auth[first][2]
                  /\ tokens[Len(tokens)].scope = last.scope
                  /\ last.session = tokens[Len(tokens)].session

\* both plans offer the scope and the agent/listings plan minted the token
C8_Witness ==
    /\ Resolved
    /\ last.reused = 0
    /\ last.raised = None
    /\ last.scope \in available[AgentListingsPackage]
    /\ last.scope \in available[PropertyLocationsPackage]
    /\ Len(last.instantiated) = 1
    /\ tokens[Len(tokens)].plan = AgentListingsPackage

\* C9: an end point with an unmapped first segment raises the scope
\* ValueError before any token is examined or plan consulted, and a scope no
\* cached token covers and no plan offers raises the plans ValueError with no
\* plan instantiated; either way the cache and the credentials are what they
\* were and no GET is issued.
C9_FailureChangesNothing ==
    [][ last'.op # "none" =>
        /\ (\A row \in ScopeTable : FirstSegment(last'.end_point) # <<row[1]>>)
              => /\ last'.raised = ValueError_scope
                 /\ last'.scanned = 0
                 /\ last'.consulted = <<>>
        /\ ( /\ last'.scope # None
             /\ Covering(tokens, last'.scope) = {}
             /\ ~Offered(last'.scope) )
              => last'.raised = ValueError_plans
        /\ last'.raised \in {ValueError_scope, ValueError_plans}
              => /\ tokens' = tokens
                 /\ auth' = auth
                 /\ last'.instantiated = <<>>
                 /\ last'.gets = <<>>
                 /\ last'.session = NoSession
      ]_vars

\* both failures with tokens in the cache
C9_Witness ==
    /\ tokens # <<>>
    /\ last.op = "_api_request"
    /\ last.raised = ValueError_plans
    /\ last.scanned = Len(tokens)

\* C10: with several threads no step removes, replaces or reorders a cached
\* token; the race itself is the witness.
C10_ThreadsOnlyAppend ==
    [][IsPrefix(tokens, tokens') /\ Len(tokens') <= Len(tokens) + 1]_vars

\* two threads both missed and both appended a token for the same scope
C10_Witness ==
    \E i, j \in 1..Len(tokens) :
        /\ i < j
        /\ tokens[i].scope = tokens[j].scope
        /\ tokens[i].scopes = tokens[j].scopes
        /\ tokens[i].session # tokens[j].session

====
